---- MODULE Spec2Model ----
(***************************************************************************)
(* Model of onadata/apps/main/models/meta_data.py: the MetaData table, the *)
(* find-or-create-or-update helper unique_type_for_form, the typed static  *)
(* operations built on it, and the lazy media download (create_media,      *)
(* media_resources).                                                       *)
(*                                                                         *)
(* Reading of the source.  Three expressions of the file have no value in  *)
(* any call: the duplicated parameter form_metadata of mapbox_layer_upload *)
(* (line 240-241), the unquoted order_by(-id) of type_for_form (line 75)   *)
(* and the name form_metadata that external_export (line 279) uses without *)
(* declaring it.  They are read here as what the surrounding code states:  *)
(* one parameter form_metadata=None, the ordering '-id' that line 81 and   *)
(* the comment at line 79 give, and a parameter form_metadata=None.        *)
(* Everything that does evaluate is modelled as it evaluates, including    *)
(* the positional call unique_type_for_form(xform, data_type, data_value,  *)
(* form_metadata) of lines 177, 188, 193 and 251, which binds the list to  *)
(* the parameter data_file.                                                *)
(*                                                                         *)
(* Strings are sequences of one-character strings, so that split, join and *)
(* the URL grammar are computed, not assumed.                              *)
(***************************************************************************)
EXTENDS Integers, Sequences, FiniteSets, TLC

VARIABLES store, call, ret, lastPublicLink, pc, loc, obj

vars == <<store, call, ret, lastPublicLink, pc, loc, obj>>

(***************************************************************************)
(* Bounds of the model.                                                    *)
(***************************************************************************)
MaxRecords == 2

MaxList == 2

\* the calls of hash on one instance
MaxHashCalls == 2

\* the form the operations are called for; OtherForm owns the rows of Init
Owners == {1}

\* CHUNK_SIZE = 1024 (line 17)
CHUNK_SIZE == 1024

(***************************************************************************)
(* Strings.                                                                *)
(***************************************************************************)
EmptyStr == <<>>

StrTrue == <<"T", "r", "u", "e">>

StrFalse == <<"F", "a", "l", "s", "e">>

HasPrefix(s, p) == Len(s) >= Len(p) /\ SubSeq(s, 1, Len(p)) = p

Drop(s, n) == SubSeq(s, n + 1, Len(s))

\* index of the first occurrence of a character of cs in s, Len(s)+1 if none
RECURSIVE FirstIndexOf(_, _, _)
FirstIndexOf(s, cs, i) ==
    IF i > Len(s) THEN Len(s) + 1
    ELSE IF s[i] \in cs THEN i
    ELSE FirstIndexOf(s, cs, i + 1)

\* str.split(sep) for a non-empty separator string sep
RECURSIVE Split(_, _)
Split(s, sep) ==
    IF \E i \in 1..(Len(s) - Len(sep) + 1) : SubSeq(s, i, i + Len(sep) - 1) = sep
    THEN LET i == CHOOSE j \in 1..(Len(s) - Len(sep) + 1) :
                     /\ SubSeq(s, j, j + Len(sep) - 1) = sep
                     /\ \A k \in 1..(j - 1) : SubSeq(s, k, k + Len(sep) - 1) # sep
         IN  <<SubSeq(s, 1, i - 1)>> \o Split(Drop(s, i + Len(sep) - 1), sep)
    ELSE <<s>>

\* parts[-1]
Last(parts) == parts[Len(parts)]

\* os.path.join of path components
RECURSIVE PathJoin(_)
PathJoin(parts) ==
    IF Len(parts) = 1 THEN parts[1]
    ELSE parts[1] \o <<"/">> \o PathJoin(Tail(parts))

Letters ==
    {"a", "b", "c", "d", "e", "f", "g", "h", "i", "j", "k", "l", "m", "n",
     "o", "p", "q", "r", "s", "t", "u", "v", "w", "x", "y", "z"}

Digits == {"0", "1", "2", "3", "4", "5", "6", "7", "8", "9"}

Whitespace == {" "}

(***************************************************************************)
(* django.core.validators.URLValidator, as far as the inputs of the model  *)
(* exercise it: scheme http, https, ftp or ftps, "://", a dotted domain    *)
(* name whose last label has two letters or more, or localhost, then       *)
(* nothing, "/" or a "/" or "?" followed by non-blank characters.          *)
(***************************************************************************)
Schemes ==
    {<<"h", "t", "t", "p">>, <<"h", "t", "t", "p", "s">>,
     <<"f", "t", "p">>, <<"f", "t", "p", "s">>}

ValidLabel(l) ==
    /\ l # <<>>
    /\ \A i \in 1..Len(l) : l[i] \in Letters \cup Digits \cup {"-"}
    /\ l[1] # "-"
    /\ l[Len(l)] # "-"

ValidHost(h) ==
    \/ h = <<"l", "o", "c", "a", "l", "h", "o", "s", "t">>
    \/ LET labels == Split(h, <<".">>)
       IN  /\ Len(labels) >= 2
           /\ \A i \in 1..Len(labels) : ValidLabel(labels[i])
           /\ Len(Last(labels)) >= 2

ValidPath(p) ==
    \/ p = <<>>
    \/ p = <<"/">>
    \/ /\ Len(p) > 1
       /\ p[1] \in {"/", "?"}
       /\ \A i \in 2..Len(p) : p[i] \notin Whitespace

urlvalidate(uri) ==
    \E sc \in Schemes :
        LET p == sc \o <<":", "/", "/">>
        IN  /\ HasPrefix(uri, p)
            /\ LET rest == Drop(uri, Len(p))
                   k    == FirstIndexOf(rest, {"/", "?"}, 1)
               IN  /\ ValidHost(SubSeq(rest, 1, k - 1))
                   /\ ValidPath(Drop(rest, k - 1))

\* is_valid_url that does not catch what the validator raises as a refusal
is_valid_url_Always(uri) == TRUE

\* is_valid_url: False when the validator raises ValidationError
is_valid_url(uri) == urlvalidate(uri)

(***************************************************************************)
(* mimetypes.guess_type(name): the pair (type, encoding), from the part of *)
(* the name after its last dot.                                            *)
(***************************************************************************)
NoType == [k |-> "none", type |-> "None", enc |-> "None"]

StrType(t) == [k |-> "str", type |-> t, enc |-> "None"]

PairType(t, e) == [k |-> "tuple", type |-> t, enc |-> e]

Extension(name) ==
    LET parts == Split(name, <<".">>)
    IN  IF Len(parts) < 2 \/ SubSeq(name, 1, Len(name) - Len(Last(parts)) - 1) = <<>>
        THEN <<>>
        ELSE Last(parts)

TypesMap(ext) ==
    CASE ext = <<"p", "n", "g">> -> "image/png"
      [] ext = <<"c", "s", "v">> -> "text/csv"
      [] ext = <<"t", "x", "t">> -> "text/plain"
      [] OTHER -> "None"

\* the tuple guess_type returns
guess_type(name) == PairType(TypesMap(Extension(name)), "None")

\* guess_type(name)[0]
guess_type_0(name) ==
    LET t == guess_type(name).type
    IN  IF t = "None" THEN NoType ELSE StrType(t)

(***************************************************************************)
(* Python values.  An argument data_value is None, a string or a boolean;  *)
(* a model field holds what was assigned to it until the row is written,   *)
(* and the CharField column holds its text.                                *)
(***************************************************************************)
NoneVal == [t |-> "none", s |-> EmptyStr]

StrVal(s) == [t |-> "str", s |-> s]

\* s is the text of the boolean, str(b)
BoolVal(b) == [t |-> "bool", s |-> IF b THEN StrTrue ELSE StrFalse]

\* the truth value Python gives `if v:`
Truthy(v) == (v.t = "str" /\ v.s # EmptyStr) \/ (v.t = "bool" /\ v.s = StrTrue)

\* v is None or v == ''
IsNoneOrEmpty(v) == v.t = "none" \/ (v.t = "str" /\ v.s = EmptyStr)

\* v == text, for a string literal text
EqualsText(v, text) == v.t = "str" /\ v.s = text

\* CharField.get_prep_value: the text written to the column
ToDb(v) == IF v.t = "none" THEN StrVal(EmptyStr) ELSE StrVal(v.s)

(***************************************************************************)
(* Files.  content is the byte string (an identity and a length), size the *)
(* length the file object declares.  A file is falsy when it has no name;  *)
(* t = "list" is a non-empty list bound to a parameter that expects a file.*)
(***************************************************************************)
NoContent == [id |-> 0, len |-> 0]

NoFile ==
    [t |-> "none", name |-> EmptyStr, content_type |-> NoType, size |-> 0,
     content |-> NoContent, committed |-> FALSE]

ListObject == [NoFile EXCEPT !.t = "list"]

UploadedFile(name, ctype, content) ==
    [t |-> "file", name |-> name, content_type |-> ctype, size |-> content.len,
     content |-> content, committed |-> FALSE]

FileTruthy(f) == (f.t = "file" /\ f.name # EmptyStr) \/ f.t = "list"

(***************************************************************************)
(* class MetaData (lines 129-135): the fields, and id, 0 until inserted.   *)
(***************************************************************************)
NoHash == [set |-> FALSE, alg |-> "", hex |-> 0]

\* u'md5:%s' % md5(bytes).hexdigest(): the digest is as the bytes are
Md5(content) == [set |-> TRUE, alg |-> "md5", hex |-> content.id]

MetaData(data_type, xform, data_value, data_file, data_file_type) ==
    [id |-> 0, xform |-> xform, data_type |-> data_type,
     data_value |-> data_value, data_file |-> data_file,
     data_file_type |-> data_file_type, file_hash |-> NoHash]

NoRecord == MetaData("", 0, NoneVal, NoFile, NoType)

SingleKinds == {"form_license", "data_license", "public_link", "source", "mapbox_layer"}

MultiKinds == {"supporting_doc", "media", "external_export"}

DigitOf(n) ==
    CASE n = 1 -> "1" [] n = 2 -> "2" [] n = 3 -> "3" [] OTHER -> "9"

\* instance.xform.user.username
Username(xform) == <<"u", DigitOf(xform)>>

upload_to(instance, filename) ==
    IF instance.data_type = "media"
    THEN PathJoin(<<Username(instance.xform),
                    <<"f", "o", "r", "m", "i", "d", "-", "m", "e", "d", "i", "a">>,
                    filename>>)
    ELSE PathJoin(<<Username(instance.xform), <<"d", "o", "c", "s">>, filename>>)

\* MetaData._set_hash: the record after the call.  Whatever storage.exists
\* answers, a record with a file seeks; IOError leaves file_hash as it was.
set_hash(self, seekOk) ==
    IF ~FileTruthy(self.data_file) THEN self
    ELSE IF seekOk THEN [self EXCEPT !.file_hash = Md5(self.data_file.content)]
    ELSE self

\* what hash and _set_hash return: None, u'' or the text of a digest
HashNone == [t |-> "none", h |-> NoHash]

HashEmpty == [t |-> "str", h |-> NoHash]

HashText(h) == [t |-> "str", h |-> h]

\* set_hash_value answering None when the seek fails
set_hash_value_NoneOnFailure(self, seekOk) ==
    IF ~FileTruthy(self.data_file) THEN HashNone
    ELSE IF seekOk THEN HashText(Md5(self.data_file.content))
    ELSE HashNone

\* MetaData._set_hash: the value returned
set_hash_value(self, seekOk) ==
    IF ~FileTruthy(self.data_file) THEN HashNone
    ELSE IF seekOk THEN HashText(Md5(self.data_file.content))
    ELSE HashEmpty

\* hash without the test of line 147: _set_hash at every call
hash_NoCache(self, seekOk) ==
    [rec |-> set_hash(self, seekOk), value |-> set_hash_value(self, seekOk),
     seek |-> FileTruthy(self.data_file),
     read |-> FileTruthy(self.data_file) /\ seekOk]

\* MetaData.hash (lines 145-150): the instance after the call, the value
\* returned, and whether data_file.seek and data_file.read were called
hash(self, seekOk) ==
    IF self.file_hash.set
    THEN [rec |-> self, value |-> HashText(self.file_hash),
          seek |-> FALSE, read |-> FALSE]
    ELSE [rec |-> set_hash(self, seekOk), value |-> set_hash_value(self, seekOk),
          seek |-> FileTruthy(self.data_file),
          read |-> FileTruthy(self.data_file) /\ seekOk]

\* str.replace(old, new, 1): the first occurrence alone
RECURSIVE ReplaceFirst(_, _, _)
ReplaceFirst(s, old, new) ==
    IF Len(s) < Len(old) THEN s
    ELSE IF HasPrefix(s, old) THEN new \o Drop(s, Len(old))
    ELSE <<Head(s)>> \o ReplaceFirst(Tail(s), old, new)

\* str.replace(old, new), for a non-empty old: every occurrence, from the left
RECURSIVE Replace(_, _, _)
Replace(s, old, new) ==
    IF Len(s) < Len(old) THEN s
    ELSE IF HasPrefix(s, old) THEN new \o Replace(Drop(s, Len(old)), old, new)
    ELSE <<Head(s)>> \o Replace(Tail(s), old, new)

Xls == <<"x", "l", "s">>

Templates == <<"t", "e", "m", "p", "l", "a", "t", "e", "s">>

\* MetaData.external_export_url (lines 281-285)
external_export_url(self) ==
    LET parts == Split(self.data_value.s, <<"|">>)
    IN  IF Len(parts) > 1 THEN StrVal(parts[2]) ELSE NoneVal

\* MetaData.external_export_name (lines 287-291)
external_export_name(self) ==
    LET parts == Split(self.data_value.s, <<"|">>)
    IN  IF Len(parts) > 1 THEN StrVal(parts[1]) ELSE NoneVal

\* external_export_template replacing the first 'xls' alone
external_export_template_FirstOnly(self) ==
    LET parts == Split(self.data_value.s, <<"|">>)
    IN  IF Len(parts) > 1 THEN StrVal(ReplaceFirst(parts[2], Xls, Templates))
        ELSE NoneVal

\* MetaData.external_export_template (lines 293-297)
external_export_template(self) ==
    LET parts == Split(self.data_value.s, <<"|">>)
    IN  IF Len(parts) > 1 THEN StrVal(Replace(parts[2], Xls, Templates)) ELSE NoneVal

\* UniqueConflict of a table without the constraint
UniqueConflict_None(st, r) == FALSE

\* UniqueConflict with a constraint on (data_type, data_value) alone
UniqueConflict_AnyForm(st, r) ==
    \E i \in 1..Len(st) :
        /\ st[i].id # r.id
        /\ st[i].data_type = r.data_type
        /\ st[i].data_value = r.data_value

\* Meta.unique_together: another row holds the triple of row r
UniqueConflict(st, r) ==
    \E i \in 1..Len(st) :
        /\ st[i].id # r.id
        /\ st[i].xform = r.xform
        /\ st[i].data_type = r.data_type
        /\ st[i].data_value = r.data_value

\* FileField.pre_save: a file not yet in storage is written under upload_to
CommitFile(r) ==
    IF FileTruthy(r.data_file) /\ ~r.data_file.committed
    THEN [r EXCEPT !.data_file.name = upload_to(r, r.data_file.name),
                   !.data_file.committed = TRUE]
    ELSE r

\* MetaData.save: _set_hash, then the INSERT (id = 0) or UPDATE of the row.
\* Returns the table, the instance and the error raised ("none" if none).
save(st, self, seekOk) ==
    LET hashed == set_hash(self, seekOk)
        mem    == CommitFile(hashed)
        row    == [mem EXCEPT !.data_value = ToDb(mem.data_value)]
    IN  IF UniqueConflict(st, row)
        THEN [store |-> st, rec |-> mem, error |-> "IntegrityError"]
        ELSE IF self.id = 0
        THEN LET n == Len(st) + 1
             IN  [store |-> Append(st, [row EXCEPT !.id = n]),
                  rec |-> [mem EXCEPT !.id = n], error |-> "none"]
        ELSE [store |-> [st EXCEPT ![self.id] = row], rec |-> mem, error |-> "none"]

\* OrderByIdDesc of a query ordered by 'id'
OrderByIdAsc(rows) == rows

RECURSIVE Reverse(_)
Reverse(s) == IF s = <<>> THEN <<>> ELSE Reverse(Tail(s)) \o <<Head(s)>>

\* .order_by('-id'): rows are kept in insertion order, id = position
OrderByIdDesc(rows) == Reverse(rows)

\* metadata_for_form (lines 78-81)
metadata_for_form(st, xform) ==
    OrderByIdDesc(SelectSeq(st, LAMBDA m : m.xform = xform))

\* type_for_form without the filter on data_type
type_for_form_AnyType(st, xform, data_type, form_metadata) ==
    IF form_metadata # <<>>
    THEN form_metadata
    ELSE OrderByIdDesc(SelectSeq(st, LAMBDA m : m.xform = xform))

\* type_for_form (lines 68-75); form_metadata <<>> is None or an empty list
type_for_form(st, xform, data_type, form_metadata) ==
    IF form_metadata # <<>>
    THEN SelectSeq(form_metadata, LAMBDA m : m.data_type = data_type)
    ELSE OrderByIdDesc(SelectSeq(st,
             LAMBDA m : m.xform = xform /\ m.data_type = data_type))

\* lines 49-53: a new MetaData when nothing matches, else all_matches[0]
Target(all_matches, xform, data_type) ==
    IF Len(all_matches) = 0
    THEN MetaData(data_type, xform, StrVal(EmptyStr), NoFile, NoType)
    ELSE all_matches[1]

\* lines 54-55: if data_value: result.data_value = data_value
WithValue(result, data_value) ==
    IF Truthy(data_value) THEN [result EXCEPT !.data_value = data_value] ELSE result

\* WithFile taking the file's name whatever the record holds
WithFile_AlwaysName(result, data_file) ==
    IF FileTruthy(data_file)
    THEN [result EXCEPT !.data_value = StrVal(data_file.name),
                        !.data_file = data_file,
                        !.data_file_type = data_file.content_type]
    ELSE result

\* lines 57-61: the value defaults to the file's name only when it is empty
WithFile(result, data_file) ==
    IF FileTruthy(data_file)
    THEN [result EXCEPT !.data_value = IF IsNoneOrEmpty(result.data_value)
                                        THEN StrVal(data_file.name) ELSE @,
                        !.data_file = data_file,
                        !.data_file_type = data_file.content_type]
    ELSE result

\* Modified without line 51: a record just built is not marked
Modified_NotWhenBuilt(target, created, data_value, data_file) ==
    Truthy(data_value) \/ FileTruthy(data_file)

\* Modified comparing the value given with the value held
Modified_WhenDifferent(target, created, data_value, data_file) ==
    \/ created
    \/ Truthy(data_value) /\ ToDb(data_value) # ToDb(target.data_value)
    \/ FileTruthy(data_file)

\* the flag modified (lines 48, 51, 56, 62): set when the record is new, when a
\* value is given and when a file is given, whatever the record held before
Modified(target, created, data_value, data_file) ==
    created \/ Truthy(data_value) \/ FileTruthy(data_file)

\* unique_type_for_form (lines 45-65).  saves counts the calls of save();
\* old is the target before the assignments, created whether it was built.
unique_type_for_form(st, xform, data_type, data_value, data_file, form_metadata, seekOk) ==
    LET all_matches == type_for_form(st, xform, data_type, form_metadata)
        created == Len(all_matches) = 0
        target == Target(all_matches, xform, data_type)
        result == WithFile(WithValue(target, data_value), data_file)
    IN  IF data_file.t = "list"
        THEN \* a list has no attribute name / content_type
             [store |-> st, result |-> NoRecord, error |-> "AttributeError",
              saves |-> 0, created |-> created, old |-> target]
        ELSE IF Modified(target, created, data_value, data_file)
        THEN LET s == save(st, result, seekOk)
             IN  [store |-> s.store,
                  result |-> IF s.error = "none" THEN s.rec ELSE NoRecord,
                  error |-> s.error, saves |-> 1, created |-> created, old |-> target]
        ELSE [store |-> st, result |-> result, error |-> "none", saves |-> 0,
              created |-> created, old |-> target]

(***************************************************************************)
(* create_media (lines 84-104) and media_resources (lines 107-126).        *)
(* web maps a URI to what requests.get answers: a body, or Failed when the *)
(* transport raises.                                                       *)
(***************************************************************************)
Failed == [id |-> 0, len |-> 0, ok |-> FALSE]

Body(id, len) == [id |-> id, len |-> len, ok |-> TRUE]

\* r.iter_content(chunk_size): the lengths of the chunks of n bytes
RECURSIVE iter_content(_, _)
iter_content(n, chunk_size) ==
    IF n = 0 THEN <<>>
    ELSE IF n <= chunk_size THEN <<n>>
    ELSE <<chunk_size>> \o iter_content(n - chunk_size, chunk_size)

\* the bytes in the temporary file after `if chunk: data_file.write(chunk)`
RECURSIVE WriteChunks(_)
WriteChunks(chunks) ==
    IF chunks = <<>> THEN 0
    ELSE (IF Head(chunks) > 0 THEN Head(chunks) ELSE 0) + WriteChunks(Tail(chunks))

\* TransportError of a fetch wrapped in a handler that swallows the failure
TransportError_Caught(r) == "none"

\* line 90: requests.get, or the iteration of line 91, raises when the
\* transport fails; no handler surrounds them
TransportError(r) == IF r.ok THEN "none" ELSE "TransportFailure"

\* create_media returning the object as it is, without a fetch
create_media_NoFetch(media, web) ==
    IF is_valid_url(media.data_value.s)
    THEN [rec |-> media, some |-> TRUE, error |-> "none"]
    ELSE [rec |-> NoRecord, some |-> FALSE, error |-> "none"]

\* create_media returning the object it was given when its value is no URL
create_media_ReturnsInvalid(media, web) ==
    [rec |-> media, some |-> TRUE, error |-> "none"]

\* Returns the object returned (NoRecord for None), whether one was
\* returned, and the error raised.
create_media(media, web) ==
    IF is_valid_url(media.data_value.s)
    THEN LET filename == Last(Split(media.data_value.s, <<"/">>))
             content_type == guess_type(filename)
             r == web[media.data_value.s]
         IN  IF TransportError(r) # "none"
             THEN [rec |-> NoRecord, some |-> FALSE, error |-> TransportError(r)]
             ELSE LET written == WriteChunks(iter_content(r.len, CHUNK_SIZE))
                      size == written
                  IN  [rec |-> [media EXCEPT
                                  !.data_value = StrVal(filename),
                                  !.data_file =
                                      [t |-> "file", name |-> filename,
                                       content_type |-> content_type,
                                       size |-> size,
                                       content |-> [id |-> r.id, len |-> written],
                                       committed |-> FALSE]],
                       some |-> TRUE, error |-> "none"]
    ELSE [rec |-> NoRecord, some |-> FALSE, error |-> "none"]

\* Returns the list built and the error raised; an error ends the loop.
RECURSIVE media_resources(_, _, _)
media_resources(media_list, download, web) ==
    IF media_list = <<>> THEN [list |-> <<>>, error |-> "none"]
    ELSE LET media == Head(media_list)
             rest == media_resources(Tail(media_list), download, web)
         IN  IF media.data_file.name = EmptyStr /\ download
             THEN LET c == create_media(media, web)
                  IN  IF c.error # "none" THEN [list |-> <<>>, error |-> c.error]
                      ELSE IF rest.error # "none" THEN rest
                      ELSE IF c.some
                      THEN [list |-> <<c.rec>> \o rest.list, error |-> "none"]
                      ELSE rest
             ELSE IF rest.error # "none" THEN rest
             ELSE [list |-> <<media>> \o rest.list, error |-> "none"]

(***************************************************************************)
(* Inputs of the operations.                                               *)
(***************************************************************************)
TextA == <<"a">>

TextB == <<"b">>

NamePng == <<"c", ".", "p", "n", "g">>

NameCsv == <<"d", ".", "c", "s", "v">>

UriPng ==
    <<"f", "t", "p", ":", "/", "/", "h", ".", "i", "o", "/", "c", ".", "p", "n", "g">>

UriCsv ==
    <<"h", "t", "t", "p", ":", "/", "/", "h", ".", "i", "o", "/", "m", "/",
      "d", ".", "c", "s", "v">>

\* no scheme
UriNoScheme == <<"h", ".", "i", "o", "/", "c", ".", "p", "n", "g">>

\* "no u": a blank, no scheme
UriBlank == <<"n", "o", " ", "u">>

ValidUris == {UriPng, UriCsv}

UriInputs == ValidUris \cup {UriNoScheme, UriBlank}

TextValues == {StrVal(TextA), StrVal(TextB)}

FilePng == UploadedFile(NamePng, StrType("image/png"), [id |-> 1, len |-> 3])

FileCsv == UploadedFile(NameCsv, StrType("text/csv"), [id |-> 2, len |-> 5])

Uploads == {FilePng, FileCsv}

Bodies == {Body(7, 2048), Body(8, 0)}

Webs == [ValidUris -> Bodies \cup {Failed}]

NoWeb == [u \in ValidUris |-> Failed]

\* settings.SUPPORTED_MEDIA_UPLOAD_TYPES
SUPPORTED_MEDIA_UPLOAD_TYPES == {StrType("image/png"), StrType("text/csv")}

\* MapboxLayerForm.SERIALIZATION_ORDER (onadata/apps/main/forms.py)
SERIALIZATION_ORDER == <<"map_name", "attribution", "link">>

Bars == <<"|", "|">>

\* sep.join(parts)
RECURSIVE Join(_, _)
Join(parts, sep) ==
    IF Len(parts) = 0 THEN EmptyStr
    ELSE IF Len(parts) = 1 THEN parts[1]
    ELSE parts[1] \o sep \o Join(Tail(parts), sep)

\* the argument data: None, or a dict that holds the keys of has
NoData == [t |-> "none", has |-> {}, val |-> [k \in {"map_name", "attribution", "link"} |-> EmptyStr]]

Dict(has, val) == [t |-> "dict", has |-> has, val |-> val]

\* data.get(key, '')
DictGet(data, key) == IF key \in data.has THEN data.val[key] ELSE EmptyStr

\* lines 248-250: the '||'-joined values in the order of the keys, for a
\* non-empty dict
data_string(data) ==
    IF data.t = "dict" /\ data.has # {}
    THEN StrVal(Join([i \in 1..Len(SERIALIZATION_ORDER) |->
                         DictGet(data, SERIALIZATION_ORDER[i])], Bars))
    ELSE NoneVal

Keys == {SERIALIZATION_ORDER[i] : i \in 1..Len(SERIALIZATION_ORDER)}

KeyIndex(k) == CHOOSE i \in 1..Len(SERIALIZATION_ORDER) : SERIALIZATION_ORDER[i] = k

\* data_values reading a value only when it has exactly one piece for a key
data_values_Strict(value) ==
    LET values == Split(value, Bars)
    IN  IF Len(values) # Len(SERIALIZATION_ORDER) THEN NoData
        ELSE Dict(Keys, [k \in Keys |-> values[KeyIndex(k)]])

\* lines 253-263: the dict read from a non-empty value, without its 'id':
\* None when the value has fewer pieces than there are keys, else piece i
\* under key i
data_values(value) ==
    LET values == Split(value, Bars)
    IN  IF Len(values) < Len(SERIALIZATION_ORDER) THEN NoData
        ELSE Dict(Keys, [k \in Keys |-> values[KeyIndex(k)]])

\* a value that holds the separator
TextBars == <<"a", "|", "|", "b">>

\* dicts that hold every key
FullData ==
    {Dict(Keys, [k \in Keys |-> IF k = "link" THEN TextB ELSE TextA]),
     Dict(Keys, [k \in Keys |-> IF k = "map_name" THEN TextBars ELSE TextB])}

MapboxData ==
    {NoData, Dict({}, NoData.val),
     Dict({"map_name"}, [NoData.val EXCEPT !["map_name"] = TextB])} \cup FullData


(***************************************************************************)
(* The last call and what it returned.                                     *)
(***************************************************************************)
Call(op, xform, data_value, data_file, meta, download, list, web) ==
    [op |-> op, xform |-> xform, data_value |-> data_value,
     data_file |-> data_file, meta |-> meta, download |-> download,
     list |-> list, web |-> web, data |-> NoData]

NoCall == Call("", 0, NoneVal, NoFile, FALSE, FALSE, <<>>, NoWeb)

Ret(tag, rec, list, bool, error, saves, created, old) ==
    [tag |-> tag, rec |-> rec, list |-> list, bool |-> bool, error |-> error,
     saves |-> saves, created |-> created, old |-> old, data |-> NoData]

NoRet == Ret("none", NoRecord, <<>>, FALSE, "none", 0, FALSE, NoRecord)

RetError(error, saves, created, old) ==
    Ret("error", NoRecord, <<>>, FALSE, error, saves, created, old)

\* what unique_type_for_form returned, as the return of a call
RetUpsert(u) ==
    IF u.error # "none" THEN RetError(u.error, u.saves, u.created, u.old)
    ELSE Ret("record", u.result, <<>>, FALSE, "none", u.saves, u.created, u.old)

\* the values a caller can pass as form_metadata: None, or the owner's list
FormMetadata(xform) == {<<>>, metadata_for_form(store, xform)}

\* the object the positional call of lines 177, 188, 193, 251 binds to data_file
AsDataFile(form_metadata) == IF form_metadata # <<>> THEN ListObject ELSE NoFile

Procs == {1, 2}

\* a MetaData instance held by a caller, and the calls of its property hash:
\* what each returned, and whether it sought and whether it read the file
\* and the values of its external_export properties, once read.
NoExport == [read |-> FALSE, name |-> NoneVal, url |-> NoneVal, template |-> NoneVal]

Loaded(rec) == [rec |-> rec, log |-> <<>>, export |-> NoExport]

NoObject == Loaded(NoRecord)

NoLocal == [xform |-> 0, data_type |-> "", data_value |-> NoneVal, result |-> NoRecord,
            created |-> FALSE, error |-> "none"]

\* The table holds rows of another form, written by these same operations:
\* form_license(2, 'b'), source(2, None, c.png), media_add_uri(2, uri),
\* external_export(2, 'm') and supporting_docs(2, d.csv).
OtherForm == 2

OtherRows ==
    LET s1 == unique_type_for_form(<<>>, OtherForm, "form_license", StrVal(TextB),
                                   NoFile, <<>>, TRUE).store
        s2 == unique_type_for_form(s1, OtherForm, "source", NoneVal, FilePng, <<>>,
                                   TRUE).store
        s3 == save(s2, MetaData("media", OtherForm, StrVal(UriPng), NoFile, NoType),
                   TRUE).store
        s4 == save(s3, MetaData("external_export", OtherForm, StrVal(<<"m">>), NoFile,
                                NoType), TRUE).store
    IN  save(s4, MetaData("supporting_doc", OtherForm, StrVal(NameCsv), FileCsv,
                          FileCsv.content_type), TRUE).store

\* the rows of the forms the operations below are called for
Rows == Len(store) - Len(OtherRows)

Init ==
    /\ store = OtherRows
    /\ call = NoCall
    /\ ret = NoRet
    /\ lastPublicLink = [o \in Owners |-> "unset"]
    /\ pc = [p \in Procs |-> "idle"]
    /\ loc = [p \in Procs |-> NoLocal]
    /\ obj = NoObject

\* the caller takes the result; the next call starts from there
Return ==
    /\ call # NoCall
    /\ call' = NoCall
    /\ ret' = NoRet
    /\ UNCHANGED <<store, lastPublicLink, pc, loc, obj>>

(***************************************************************************)
(* The operations of MetaData, one action for each call.  An action is     *)
(* disabled when the table would grow beyond MaxRecords rows.              *)
(***************************************************************************)
\* whether data_file.seek succeeds in _set_hash (lines 160-163).  FilePng is
\* held in memory and always seeks; FileCsv is a stream whose seek can raise
\* IOError; a file read back from storage seeks.
SeekOutcomes(data_file) ==
    IF data_file = FileCsv
    THEN BOOLEAN
    ELSE {TRUE}

\* PublicLinkValue without lines 175-176
PublicLinkValue_Unconverted(arg) == arg

\* lines 175-176: if data_value is False: data_value = 'False'
PublicLinkValue(arg) == IF arg = BoolVal(FALSE) THEN StrVal(StrFalse) ELSE arg

\* MetaData.public_link (lines 172-183)
PublicLink ==
    \E xform \in Owners, arg \in {NoneVal, BoolVal(TRUE), BoolVal(FALSE)} :
    \E form_metadata \in FormMetadata(xform) :
        LET data_value == PublicLinkValue(arg)
            u == unique_type_for_form(store, xform, "public_link", data_value,
                                      AsDataFile(form_metadata), <<>>, TRUE)
        IN  /\ call = NoCall
            /\ Len(u.store) <= Len(OtherRows) + MaxRecords
            /\ store' = u.store
            /\ call' = Call("public_link", xform, arg, NoFile,
                            form_metadata # <<>>, FALSE, <<>>, NoWeb)
            /\ ret' = IF u.error # "none" THEN RetUpsert(u)
                      ELSE Ret("bool", u.result, <<>>,
                               EqualsText(u.result.data_value, StrTrue),
                               "none", u.saves, u.created, u.old)
            /\ lastPublicLink' =
                   IF u.error = "none" /\ arg # NoneVal
                   THEN [lastPublicLink EXCEPT
                            ![xform] = IF arg = BoolVal(TRUE) THEN "True" ELSE "False"]
                   ELSE lastPublicLink
            /\ UNCHANGED <<pc, loc, obj>>

\* MetaData.form_license (lines 185-188)
FormLicense ==
    \E xform \in Owners, data_value \in {NoneVal} \cup TextValues :
    \E form_metadata \in FormMetadata(xform) :
        LET u == unique_type_for_form(store, xform, "form_license", data_value,
                                      AsDataFile(form_metadata), <<>>, TRUE)
        IN  /\ call = NoCall
            /\ Len(u.store) <= Len(OtherRows) + MaxRecords
            /\ store' = u.store
            /\ call' = Call("form_license", xform, data_value, NoFile,
                            form_metadata # <<>>, FALSE, <<>>, NoWeb)
            /\ ret' = RetUpsert(u)
            /\ UNCHANGED <<lastPublicLink, pc, loc, obj>>

\* MetaData.data_license (lines 190-193)
DataLicense ==
    \E xform \in Owners, data_value \in {NoneVal} \cup TextValues :
    \E form_metadata \in FormMetadata(xform) :
        LET u == unique_type_for_form(store, xform, "data_license", data_value,
                                      AsDataFile(form_metadata), <<>>, TRUE)
        IN  /\ call = NoCall
            /\ Len(u.store) <= Len(OtherRows) + MaxRecords
            /\ store' = u.store
            /\ call' = Call("data_license", xform, data_value, NoFile,
                            form_metadata # <<>>, FALSE, <<>>, NoWeb)
            /\ ret' = RetUpsert(u)
            /\ UNCHANGED <<lastPublicLink, pc, loc, obj>>

\* MetaData.source (lines 195-199)
Source ==
    \E xform \in Owners, data_value \in {NoneVal, StrVal(EmptyStr)} \cup TextValues,
       data_file \in {NoFile} \cup Uploads :
    \E form_metadata \in FormMetadata(xform), seekOk \in SeekOutcomes(data_file) :
        LET u == unique_type_for_form(store, xform, "source", data_value,
                                      data_file, form_metadata, seekOk)
        IN  /\ call = NoCall
            /\ Len(u.store) <= Len(OtherRows) + MaxRecords
            /\ store' = u.store
            /\ call' = Call("source", xform, data_value, data_file,
                            form_metadata # <<>>, FALSE, <<>>, NoWeb)
            /\ ret' = RetUpsert(u)
            /\ UNCHANGED <<lastPublicLink, pc, loc, obj>>

\* MetaData.mapbox_layer_upload (lines 239-267)
MapboxLayerUpload ==
    \E xform \in Owners, data \in MapboxData :
    \E form_metadata \in FormMetadata(xform) :
        LET u == unique_type_for_form(store, xform, "mapbox_layer", data_string(data),
                                      AsDataFile(form_metadata), <<>>, TRUE)
        IN  /\ call = NoCall
            /\ Len(u.store) <= Len(OtherRows) + MaxRecords
            /\ store' = u.store
            /\ call' = [Call("mapbox_layer", xform, data_string(data), NoFile,
                             form_metadata # <<>>, FALSE, <<>>, NoWeb)
                           EXCEPT !.data = data]
            /\ ret' = IF u.error # "none" THEN RetUpsert(u)
                      ELSE IF /\ Truthy(u.result.data_value)
                              /\ data_values(u.result.data_value.s) # NoData
                      THEN [Ret("map", u.result, <<>>, FALSE, "none", u.saves,
                                u.created, u.old)
                              EXCEPT !.data = data_values(u.result.data_value.s)]
                      ELSE Ret("none", u.result, <<>>, FALSE, "none", u.saves,
                               u.created, u.old)
            /\ UNCHANGED <<lastPublicLink, pc, loc, obj>>

\* MetaData.supporting_docs (lines 201-210)
SupportingDocs ==
    \E xform \in Owners, data_file \in {NoFile} \cup Uploads :
    \E form_metadata \in FormMetadata(xform), seekOk \in SeekOutcomes(data_file) :
        LET data_type == "supporting_doc"
            s == IF FileTruthy(data_file)
                 THEN save(store,
                           MetaData(data_type, xform, StrVal(data_file.name),
                                    data_file, data_file.content_type), seekOk)
                 ELSE [store |-> store, rec |-> NoRecord, error |-> "none"]
            saves == IF FileTruthy(data_file) THEN 1 ELSE 0
        IN  /\ call = NoCall
            /\ Len(s.store) <= Len(OtherRows) + MaxRecords
            /\ store' = s.store
            /\ call' = Call("supporting_docs", xform, NoneVal, data_file,
                            form_metadata # <<>>, FALSE, <<>>, NoWeb)
            /\ ret' = IF s.error # "none"
                      THEN RetError(s.error, saves, FALSE, NoRecord)
                      ELSE Ret("list", NoRecord,
                               type_for_form(s.store, xform, data_type, form_metadata),
                               FALSE, "none", saves, Len(s.store) > Len(store),
                               NoRecord)
            /\ UNCHANGED <<lastPublicLink, pc, loc, obj>>

FileOctetCsv ==
    UploadedFile(NameCsv, StrType("application/octet-stream"), [id |-> 2, len |-> 5])

FileBin ==
    UploadedFile(<<"e", ".", "b", "i", "n">>, StrType("application/octet-stream"),
                 [id |-> 3, len |-> 1])

\* declared as an allowed type, with a name no type is inferred from
FileDeclaredCsv ==
    UploadedFile(<<"f", ".", "b", "i", "n">>, StrType("text/csv"), [id |-> 4, len |-> 2])

MediaUploads == {FilePng, FileOctetCsv, FileBin, FileDeclaredCsv}

\* ContentTypeFor without the inference from the name
ContentTypeFor_DeclaredOnly(data_file, allowed_types) == data_file.content_type

\* lines 217-219: the declared content type when it is allowed, else the
\* type guessed from the name
ContentTypeFor(data_file, allowed_types) ==
    IF data_file.content_type \in allowed_types
    THEN data_file.content_type
    ELSE guess_type_0(data_file.name)

\* MetaData.media_upload (lines 212-227)
MediaUpload ==
    \E xform \in Owners, data_file \in {NoFile} \cup MediaUploads,
       download \in BOOLEAN :
    \E form_metadata \in FormMetadata(xform), seekOk \in SeekOutcomes(data_file),
       web \in IF download THEN Webs ELSE {NoWeb} :
        LET data_type == "media"
            allowed_types == SUPPORTED_MEDIA_UPLOAD_TYPES
            content_type == ContentTypeFor(data_file, allowed_types)
            accepted == FileTruthy(data_file) /\ content_type \in allowed_types
            s == IF accepted
                 THEN save(store,
                           MetaData(data_type, xform, StrVal(data_file.name),
                                    data_file, content_type), seekOk)
                 ELSE [store |-> store, rec |-> NoRecord, error |-> "none"]
            saves == IF accepted THEN 1 ELSE 0
            m == media_resources(
                     type_for_form(s.store, xform, data_type, form_metadata),
                     download, web)
        IN  /\ call = NoCall
            /\ Len(s.store) <= Len(OtherRows) + MaxRecords
            /\ store' = s.store
            /\ call' = Call("media_upload", xform, NoneVal, data_file,
                            form_metadata # <<>>, download, <<>>, web)
            /\ ret' = IF s.error # "none"
                      THEN RetError(s.error, saves, FALSE, NoRecord)
                      ELSE IF m.error # "none"
                      THEN RetError(m.error, saves, Len(s.store) > Len(store), NoRecord)
                      ELSE Ret("list", NoRecord, m.list, FALSE, "none", saves,
                               Len(s.store) > Len(store), NoRecord)
            /\ UNCHANGED <<lastPublicLink, pc, loc, obj>>

\* MetaData.media_add_uri (lines 229-237)
MediaAddUri ==
    \E xform \in Owners, uri \in UriInputs :
        LET s == IF is_valid_url(uri)
                 THEN save(store, MetaData("media", xform, StrVal(uri), NoFile, NoType),
                           TRUE)
                 ELSE [store |-> store, rec |-> NoRecord, error |-> "none"]
            saves == IF is_valid_url(uri) THEN 1 ELSE 0
        IN  /\ call = NoCall
            /\ Len(s.store) <= Len(OtherRows) + MaxRecords
            /\ store' = s.store
            /\ call' = Call("media_add_uri", xform, StrVal(uri), NoFile, FALSE,
                            FALSE, <<>>, NoWeb)
            /\ ret' = IF s.error # "none"
                      THEN RetError(s.error, saves, FALSE, NoRecord)
                      ELSE Ret("none", NoRecord, <<>>, FALSE, "none", saves,
                               Len(s.store) > Len(store), NoRecord)
            /\ UNCHANGED <<lastPublicLink, pc, loc, obj>>

ExportValues ==
    {StrVal(<<"n", "|", "u", ".", "x", "l", "s">>), StrVal(<<"m">>),
     StrVal(<<"a", "|", "x", "l", "s", "x", "l", "s">>)}

\* MetaData.external_export (lines 269-279)
ExternalExport ==
    \E xform \in Owners, data_value \in {NoneVal} \cup ExportValues :
    \E form_metadata \in FormMetadata(xform) :
        LET data_type == "external_export"
            s == IF Truthy(data_value)
                 THEN save(store, MetaData(data_type, xform, data_value, NoFile, NoType),
                           TRUE)
                 ELSE [store |-> store, rec |-> NoRecord, error |-> "none"]
            saves == IF Truthy(data_value) THEN 1 ELSE 0
        IN  /\ call = NoCall
            /\ Len(s.store) <= Len(OtherRows) + MaxRecords
            /\ Truthy(data_value) => form_metadata = <<>>
            /\ store' = s.store
            /\ call' = Call("external_export", xform, data_value, NoFile,
                            form_metadata # <<>>, FALSE, <<>>, NoWeb)
            /\ ret' = IF s.error # "none"
                      THEN RetError(s.error, saves, FALSE, NoRecord)
                      ELSE IF Truthy(data_value)
                      THEN Ret("record", s.rec, <<>>, FALSE, "none", saves, TRUE, NoRecord)
                      ELSE Ret("list", NoRecord,
                               type_for_form(store, xform, data_type, form_metadata),
                               FALSE, "none", 0, FALSE, NoRecord)
            /\ UNCHANGED <<lastPublicLink, pc, loc, obj>>

(***************************************************************************)
(* media_resources and create_media called on a list of MetaData objects   *)
(* by a caller that holds them: rows as media_add_uri and media_upload     *)
(* write them, and rows whose value is no URI.                             *)
(***************************************************************************)
SampleTable ==
    LET s1 == save(<<>>, MetaData("media", 1, StrVal(UriPng), NoFile, NoType), TRUE).store
        s2 == save(s1, MetaData("media", 1, StrVal(UriCsv), NoFile, NoType), TRUE).store
        s3 == save(s2, MetaData("media", 1, StrVal(UriBlank), NoFile, NoType), TRUE).store
        s4 == save(s3, MetaData("media", 1, StrVal(UriNoScheme), NoFile, NoType),
                   TRUE).store
    IN  save(s4, MetaData("media", 1, StrVal(NamePng), FilePng, FilePng.content_type),
             TRUE).store

SampleMedia == {SampleTable[i] : i \in 1..Len(SampleTable)}

MediaLists ==
    UNION {[1..n -> SampleMedia] : n \in 0..MaxList}

MediaResources ==
    \E media_list \in MediaLists, download \in BOOLEAN :
    \E web \in IF download THEN Webs ELSE {NoWeb} :
        LET m == media_resources(media_list, download, web)
        IN  /\ call = NoCall
            /\ call' = Call("media_resources", 0, NoneVal, NoFile, FALSE, download,
                            media_list, web)
            /\ ret' = IF m.error # "none" THEN RetError(m.error, 0, FALSE, NoRecord)
                      ELSE Ret("list", NoRecord, m.list, FALSE, "none", 0, FALSE,
                               NoRecord)
            /\ UNCHANGED <<store, lastPublicLink, pc, loc, obj>>

CreateMedia ==
    \E media \in SampleMedia, web \in Webs :
        LET c == create_media(media, web)
        IN  /\ call = NoCall
            /\ media.data_file.name = EmptyStr
            /\ call' = Call("create_media", 0, NoneVal, NoFile, FALSE, TRUE,
                            <<media>>, web)
            /\ ret' = IF c.error # "none" THEN RetError(c.error, 0, FALSE, media)
                      ELSE IF c.some
                      THEN Ret("record", c.rec, <<>>, FALSE, "none", 0, FALSE, media)
                      ELSE Ret("none", NoRecord, <<>>, FALSE, "none", 0, FALSE, media)
            /\ UNCHANGED <<store, lastPublicLink, pc, loc, obj>>

NextMedia ==
    \/ MediaResources
    \/ CreateMedia
    \/ Return

\* the resolver as a function of its inputs
SpecMedia == Init /\ [][NextMedia]_vars

\* the single-instance operations
Next ==
    \/ PublicLink
    \/ FormLicense
    \/ DataLicense
    \/ Source
    \/ MapboxLayerUpload
    \/ Return

Spec == Init /\ [][Next]_vars

\* the multi-instance operations
NextMulti ==
    \/ SupportingDocs
    \/ MediaUpload
    \/ MediaAddUri
    \/ ExternalExport
    \/ Return

SpecMulti == Init /\ [][NextMulti]_vars


(***************************************************************************)
(* mapbox_layer_upload on tables that hold a mapbox_layer row written by   *)
(* other code (lines 254-256: "corrupted stored data"): a value of fewer   *)
(* pieces than there are keys, and one of more.                            *)
(***************************************************************************)
StoredLayers ==
    {EmptyStr, TextA, <<"a", "|", "b">>, TextBars,
     Join(<<TextB, TextB, TextA>>, Bars), Join(<<TextA, EmptyStr, TextB>>, Bars),
     Join(<<TextA, TextB, TextA, TextB>>, Bars)}

MapboxTables ==
    {OtherRows} \cup
    {save(OtherRows, MetaData("mapbox_layer", 1, StrVal(v), NoFile, NoType), TRUE).store :
         v \in StoredLayers}

InitMapbox ==
    /\ store \in MapboxTables
    /\ call = NoCall
    /\ ret = NoRet
    /\ lastPublicLink = [o \in Owners |-> "unset"]
    /\ pc = [p \in Procs |-> "idle"]
    /\ loc = [p \in Procs |-> NoLocal]
    /\ obj = NoObject

NextMapbox ==
    \/ MapboxLayerUpload
    \/ Return

SpecMapbox == InitMapbox /\ [][NextMapbox]_vars

(***************************************************************************)
(* The property hash read on an instance a caller loaded from the table,   *)
(* whose rows source writes.  Reading the stored file can fail at seek for *)
(* any row (the file may be gone from storage).                            *)
(***************************************************************************)
\* MetaData.objects.get: the instance of a row
Load ==
    \E i \in 1..Len(store) :
        /\ call = NoCall
        /\ obj # Loaded(store[i])
        /\ obj' = Loaded(store[i])
        /\ UNCHANGED <<store, call, ret, lastPublicLink, pc, loc>>

\* instance.hash
Hash ==
    \E seekOk \in BOOLEAN :
        LET h == hash(obj.rec, seekOk)
        IN  /\ call = NoCall
            /\ obj.rec # NoRecord
            /\ Len(obj.log) < MaxHashCalls
            /\ obj' = [rec |-> h.rec,
                       log |-> Append(obj.log,
                                  [value |-> h.value, seek |-> h.seek, read |-> h.read,
                                   before |-> obj.rec.file_hash,
                                   after |-> h.rec.file_hash]),
                       export |-> obj.export]
            /\ UNCHANGED <<store, call, ret, lastPublicLink, pc, loc>>

\* the three external_export properties of the instance
ExportFields ==
    /\ call = NoCall
    /\ obj.rec # NoRecord
    /\ ~obj.export.read
    /\ obj' = [obj EXCEPT !.export =
                   [read |-> TRUE,
                    name |-> external_export_name(obj.rec),
                    url |-> external_export_url(obj.rec),
                    template |-> external_export_template(obj.rec)]]
    /\ UNCHANGED <<store, call, ret, lastPublicLink, pc, loc>>

NextExport ==
    \/ ExternalExport
    \/ Return
    \/ Load
    \/ ExportFields

SpecExport == Init /\ [][NextExport]_vars

NextHash ==
    \/ Source
    \/ Return
    \/ Load
    \/ Hash

SpecHash == Init /\ [][NextHash]_vars

(***************************************************************************)
(* Two requests call form_license at the same time.  unique_type_for_form  *)
(* reads the table once (line 47, the query runs at len()) and writes it   *)
(* once (line 64); another request can run between the two.                *)
(***************************************************************************)
ConcValues == {NoneVal} \cup TextValues

\* lines 47-62: the query and the assignments, on the object in memory
Find(p) ==
    \E xform \in Owners, data_value \in ConcValues :
        LET data_type == "form_license"
            all_matches == type_for_form(store, xform, data_type, <<>>)
            created == Len(all_matches) = 0
            target == Target(all_matches, xform, data_type)
            result == WithFile(WithValue(target, data_value), NoFile)
        IN  /\ pc[p] = "idle"
            /\ pc' = [pc EXCEPT ![p] = IF Modified(target, created, data_value, NoFile)
                                       THEN "found" ELSE "done"]
            /\ loc' = [loc EXCEPT ![p] =
                          [xform |-> xform, data_type |-> data_type,
                           data_value |-> data_value, result |-> result,
                           created |-> created, error |-> "none"]]
            /\ UNCHANGED <<store, call, ret, lastPublicLink, obj>>

\* lines 63-64: result.save()
Persist(p) ==
    LET s == save(store, loc[p].result, TRUE)
    IN  /\ pc[p] = "found"
        /\ Len(s.store) <= Len(OtherRows) + MaxRecords
        /\ store' = s.store
        /\ pc' = [pc EXCEPT ![p] = "done"]
        /\ loc' = [loc EXCEPT ![p].result = IF s.error = "none" THEN s.rec ELSE NoRecord,
                              ![p].error = s.error]
        /\ UNCHANGED <<call, ret, lastPublicLink, obj>>

\* line 65, or the exception leaving the call: the request ends
Finish(p) ==
    /\ pc[p] = "done"
    /\ pc' = [pc EXCEPT ![p] = "idle"]
    /\ loc' = [loc EXCEPT ![p] = NoLocal]
    /\ UNCHANGED <<store, call, ret, lastPublicLink, obj>>

NextConc == \E p \in Procs : Find(p) \/ Persist(p) \/ Finish(p)

SpecConc == Init /\ [][NextConc]_vars

\* requests that interleave as above, and requests that run form_license to
\* its end between their steps
NextDup ==
    \/ \E p \in Procs : Find(p) \/ Persist(p) \/ Finish(p)
    \/ FormLicense
    \/ Return

SpecDup == Init /\ [][NextDup]_vars

(***************************************************************************)
(* Properties of the single-instance operations (specification Spec).      *)
(***************************************************************************)
UpsertOps == {"public_link", "form_license", "data_license", "source", "mapbox_layer"}

\* the rows of a form and data_type, in insertion order
RowsOf(st, xform, data_type) ==
    SelectSeq(st, LAMBDA m : m.xform = xform /\ m.data_type = data_type)

\* a call of an operation built on unique_type_for_form whose arguments reach
\* it as written: no non-empty form_metadata bound to data_file
IsUpsert(c) == c.op \in UpsertOps /\ (c.meta => c.op = "source")

\* the call gives a non-empty value (False is given as 'False')
GivesValue(c) == c.data_value.t # "none" /\ c.data_value.s # EmptyStr

GivesFile(c) == FileTruthy(c.data_file)

BlankRow(st, xform, data_type) ==
    [MetaData(data_type, xform, StrVal(EmptyStr), NoFile, NoType)
        EXCEPT !.id = Len(st) + 1]

FieldChanged(r) ==
    \/ r.created
    \/ ToDb(r.rec.data_value) # ToDb(r.old.data_value)
    \/ r.rec.data_file.content # r.old.data_file.content
    \/ r.rec.data_file_type # r.old.data_file_type

KindOf(op) ==
    CASE op = "supporting_docs" -> "supporting_doc"
      [] op = "media_upload" -> "media"
      [] op = "media_add_uri" -> "media"
      [] OTHER -> op

\* the value of the row a call writes: the file's name, the URI or the value
ValueOf(c) ==
    IF c.op \in {"supporting_docs", "media_upload"}
    THEN StrVal(c.data_file.name)
    ELSE ToDb(c.data_value)

\* the call supplies a file or a value that the operation accepts for writing
MultiWrite(c) ==
    \/ c.op = "supporting_docs" /\ GivesFile(c)
    \/ c.op = "media_upload" /\ c.data_file \in {FilePng, FileOctetCsv, FileDeclaredCsv}
    \/ c.op = "media_add_uri" /\ c.data_value.s \in ValidUris
    \/ c.op = "external_export" /\ GivesValue(c)

\* the call returns the list of the rows of its kind, as they are stored
Listing(c) ==
    /\ ~c.meta
    /\ \/ c.op = "supporting_docs"
       \/ c.op = "media_upload" /\ ~c.download
       \/ c.op = "external_export" /\ ~GivesValue(c)

HoldsTriple(st, xform, data_type, data_value) ==
    \E i \in 1..Len(st) :
        /\ st[i].xform = xform
        /\ st[i].data_type = data_type
        /\ st[i].data_value = data_value

\* store' is store with one more row, of the call's form, kind and value
Appended(st, st2, c) ==
    /\ Len(st2) = Len(st) + 1
    /\ SubSeq(st2, 1, Len(st)) = st
    /\ st2[Len(st2)].id = Len(st2)
    /\ st2[Len(st2)].xform = c.xform
    /\ st2[Len(st2)].data_type = KindOf(c.op)
    /\ st2[Len(st2)].data_value = ValueOf(c)

UriRow(st, xform, uri) ==
    [MetaData("media", xform, StrVal(uri), NoFile, NoType) EXCEPT !.id = Len(st) + 1]

\* C8 as stated: media_add_uri adds one media row with the URI as value and
\* no file when the URI is valid; when it is not, the table is unchanged and
\* nothing is raised.
C8_Original ==
    [][call'.op = "media_add_uri"
           => /\ ret'.error = "none"
              /\ store' = IF call'.data_value.s \in ValidUris
                          THEN Append(store, UriRow(store, call'.xform, call'.data_value.s))
                          ELSE store]_vars

\* C8 as amended: media_add_uri adds one media row with the URI as value and
\* no file when the URI is valid and no media row of the form holds it; when
\* one does, the insert is refused with IntegrityError and the table is
\* unchanged; when the URI is not valid the table is unchanged and nothing
\* is raised.
C8_AddsValidUriOnce ==
    [][call'.op = "media_add_uri"
           => LET uri == call'.data_value.s
              IN  IF uri \notin ValidUris
                  THEN store' = store /\ ret'.error = "none"
                  ELSE IF HoldsTriple(store, call'.xform, "media", StrVal(uri))
                  THEN store' = store /\ ret'.error = "IntegrityError"
                  ELSE /\ store' = Append(store, UriRow(store, call'.xform, uri))
                       /\ ret'.error = "none"]_vars

\* a valid URI was added: the last row holds it and has no file
C8_Witness ==
    /\ call.op = "media_add_uri"
    /\ call.data_value.s \in ValidUris
    /\ ret.error = "none"
    /\ ret.created
    /\ store[Len(store)].data_value = call.data_value
    /\ store[Len(store)].data_file = NoFile

\* the fetch of object m fails: m has no file, its value is a valid URI and
\* the transport raises for it
FetchFails(m, web) ==
    /\ m.data_file.name = EmptyStr
    /\ m.data_value.s \in ValidUris
    /\ ~web[m.data_value.s].ok

\* the declared type of the file is allowed or, failing that, the type
\* inferred from its name is
Allowed(f) ==
    \/ f.content_type \in SUPPORTED_MEDIA_UPLOAD_TYPES
    \/ guess_type_0(f.name) \in SUPPORTED_MEDIA_UPLOAD_TYPES

\* the media rows of the call's form as the call lists them: by descending
\* id, without the rows that have no file and no valid URI when download is
\* asked
Resolved(st, c) ==
    SelectSeq(Reverse(RowsOf(st, c.xform, "media")),
              LAMBDA m : ~(m.data_file.name = EmptyStr /\ c.download
                           /\ m.data_value.s \notin ValidUris))

UriRows(st, xform) ==
    SelectSeq(RowsOf(st, xform, "media"),
              LAMBDA m : m.data_file.name = EmptyStr /\ m.data_value.s \in ValidUris)

Dropped(m, download) ==
    m.data_file.name = EmptyStr /\ download /\ m.data_value.s \notin ValidUris

\* C9: when no fetch fails, media_resources returns the objects of its input
\* in their order, without those that have no file when download is asked
\* and whose value is no valid URI; objects that have a file are returned
\* unchanged, and without download the output is the input.
C9_InputWithoutUnresolvable ==
    (call.op = "media_resources" /\ ret.error = "none")
        => LET kept == SelectSeq(call.list, LAMBDA m : ~Dropped(m, call.download))
           IN  /\ ret.tag = "list"
               /\ Len(ret.list) = Len(kept)
               /\ \A i \in 1..Len(kept) :
                      /\ ret.list[i].id = kept[i].id
                      /\ kept[i].data_file.name # EmptyStr => ret.list[i] = kept[i]
               /\ ~call.download => ret.list = call.list

\* a list of an unresolvable object and a resolvable one, download asked: the
\* second alone is returned
C9_Witness ==
    /\ call.op = "media_resources"
    /\ call.download
    /\ Len(call.list) = 2
    /\ call.list[1].data_value = StrVal(UriBlank)
    /\ call.list[2].data_value = StrVal(UriCsv)
    /\ ret.error = "none"
    /\ Len(ret.list) = 1
    /\ ret.list[1].id = call.list[2].id

\* the last path segment of the URIs of the model
SegmentOf(uri) == IF uri = UriPng THEN NamePng ELSE NameCsv

\* C10: create_media on an object without file whose value is a valid URI
\* returns it with the value set to the last path segment and a file that
\* holds the bytes fetched, of that length, with the content type inferred
\* from the file name; on a value that is no URI it returns None.
C10_Resolve ==
    (call.op = "create_media" /\ ret.error = "none")
        => LET media == call.list[1]
               uri == media.data_value.s
           IN  IF uri \in ValidUris
               THEN /\ ret.tag = "record"
                    /\ ret.rec.data_value = StrVal(SegmentOf(uri))
                    /\ ret.rec.data_file.content =
                           [id |-> call.web[uri].id, len |-> call.web[uri].len]
                    /\ ret.rec.data_file.size = call.web[uri].len
                    /\ ret.rec.data_file.content_type = guess_type_0(SegmentOf(uri))
               ELSE ret.tag = "none"

\* C11: a transport failure while fetching an object is not caught: it leaves
\* create_media, and it leaves media_resources called with download, which
\* returns no list, whatever the objects before the failing one.
C11_FailurePropagates ==
    /\ (/\ call.op = "media_resources"
        /\ call.download
        /\ \E i \in 1..Len(call.list) : FetchFails(call.list[i], call.web))
           => /\ ret.tag = "error"
              /\ ret.error = "TransportFailure"
              /\ ret.list = <<>>
    /\ (call.op = "create_media" /\ FetchFails(call.list[1], call.web))
           => /\ ret.tag = "error"
              /\ ret.error = "TransportFailure"

\* the first object of the list was fetched, the fetch of the second failed
C11_Witness ==
    /\ call.op = "media_resources"
    /\ call.download
    /\ Len(call.list) = 2
    /\ call.list[1].data_value = StrVal(UriPng)
    /\ call.web[UriPng].ok
    /\ FetchFails(call.list[2], call.web)
    /\ ret.error = "TransportFailure"
    /\ ret.list = <<>>

(***************************************************************************)
(* Properties of concurrent upserts (specification SpecConc).              *)
(***************************************************************************)
\* two rows of the table hold the same (xform, data_type, data_value)
TwoRowsSameTriple ==
    \E i, j \in 1..Len(store) :
        /\ i # j
        /\ store[i].xform = store[j].xform
        /\ store[i].data_type = store[j].data_type
        /\ store[i].data_value = store[j].data_value

\* both requests ran for the same (owner, kind, value), both found no row,
\* and both have left save()
BothSawNoMatch ==
    /\ \A p \in Procs : pc[p] = "done" /\ loc[p].created
    /\ loc[1].xform = loc[2].xform
    /\ loc[1].data_type = loc[2].data_type
    /\ loc[1].data_value = loc[2].data_value

IsDigest(v) == v.t = "str" /\ v.h.set

\* C13: when a call of hash on an instance returns a digest, the next call
\* on the instance, its file unchanged, returns the same digest and is a
\* cache hit: it neither seeks nor reads the file.
C13_SecondCallCached ==
    \A k \in 2..Len(obj.log) :
        IsDigest(obj.log[k - 1].value)
            => /\ obj.log[k].value = obj.log[k - 1].value
               /\ ~obj.log[k].seek
               /\ ~obj.log[k].read

\* the first call read the file and computed the digest, the second
\* returned it without reading
C13_Witness ==
    /\ Len(obj.log) = 2
    /\ obj.log[1].read
    /\ IsDigest(obj.log[1].value)
    /\ obj.log[1].value.h = Md5(obj.rec.data_file.content)
    /\ obj.log[2].value = obj.log[1].value
    /\ ~obj.log[2].seek

\* C14: a call of hash that cannot seek returns u'', raises nothing and
\* leaves file_hash as it was, unset; on an instance without file and
\* without hash it returns None and sets nothing.  The same holds of
\* _set_hash on every row of the table: with a file and a failing seek it
\* returns u'' and leaves file_hash as it is, without file it returns None.
C14_SentinelNotCached ==
    /\ \A i \in 1..Len(store) :
           IF FileTruthy(store[i].data_file)
           THEN /\ set_hash_value(store[i], FALSE) = HashEmpty
                /\ set_hash(store[i], FALSE).file_hash = store[i].file_hash
           ELSE \A seekOk \in BOOLEAN :
                    /\ set_hash_value(store[i], seekOk) = HashNone
                    /\ set_hash(store[i], seekOk) = store[i]
    /\ \A k \in 1..Len(obj.log) :
           LET e == obj.log[k]
           IN  /\ (e.seek /\ ~e.read)
                      => e.value = HashEmpty /\ e.after = e.before /\ ~e.after.set
               /\ (~FileTruthy(obj.rec.data_file) /\ ~e.before.set)
                      => /\ e.value = HashNone
                         /\ e.value # HashEmpty
                         /\ ~e.seek
                         /\ e.after = NoHash

\* hash was read twice on an instance with a file: the seek failed both
\* times, and nothing is cached
C14_Witness ==
    /\ Len(obj.log) = 2
    /\ FileTruthy(obj.rec.data_file)
    /\ \A k \in 1..2 : obj.log[k].seek /\ ~obj.log[k].read /\ obj.log[k].value = HashEmpty
    /\ ~obj.rec.file_hash.set

(***************************************************************************)
(* Properties of the mapbox_layer codec (specification SpecMapbox).        *)
(***************************************************************************)
\* the call gives no dict, or an empty one: a read
ReadsLayer(c) == c.op = "mapbox_layer" /\ ~c.meta /\ data_string(c.data) = NoneVal

\* C15: a dict that holds every key is read back as it was written: the
\* call that writes it returns it, and so does a later call without data.
C15_RoundTrip ==
    [][/\ (call'.op = "mapbox_layer" /\ ~call'.meta /\ call'.data \in FullData)
              => ret'.tag = "map" /\ ret'.data = call'.data
       /\ ReadsLayer(call')
              => \A m \in FullData :
                     (\E i \in 1..Len(store) :
                          /\ store[i].xform = call'.xform
                          /\ store[i].data_type = "mapbox_layer"
                          /\ store[i].data_value = data_string(m))
                         => ret'.tag = "map" /\ ret'.data = m]_vars

RECURSIVE CountBars(_)
CountBars(s) ==
    IF s = <<>> THEN 0 ELSE (IF Head(s) = "|" THEN 1 ELSE 0) + CountBars(Tail(s))

\* C17: on an instance whose value is a name, a '|' and a url, the name is
\* the text before the '|', the url the text after it, and the template the
\* url with every 'xls' replaced by 'templates'; on a value without '|' the
\* three are None.
C17_ExportFields ==
    obj.export.read
        => LET v == obj.rec.data_value.s
               e == obj.export
           IN  /\ CountBars(v) = 0
                      => e.name = NoneVal /\ e.url = NoneVal /\ e.template = NoneVal
               /\ CountBars(v) = 1
                      => /\ e.name.t = "str" /\ e.url.t = "str" /\ e.template.t = "str"
                         /\ e.name.s \o <<"|">> \o e.url.s = v
                         /\ e.template.s = Replace(e.url.s, Xls, Templates)
                         /\ \A i \in 1..Len(e.template.s) :
                                ~HasPrefix(Drop(e.template.s, i - 1), Xls)

\* the url of the instance holds 'xls' twice, and the template none
C17_Witness ==
    /\ obj.export.read
    /\ obj.rec.data_value = StrVal(<<"a", "|", "x", "l", "s", "x", "l", "s">>)
    /\ obj.export.name = StrVal(TextA)
    /\ obj.export.url = StrVal(Xls \o Xls)
    /\ obj.export.template = StrVal(Templates \o Templates)

(***************************************************************************)
(* Properties of upserts on duplicate rows (specification SpecDup).        *)
(***************************************************************************)
\* the call runs form_license on a form that has several form_license rows
OnDuplicates(c, st) ==
    /\ c.op = "form_license"
    /\ ~c.meta
    /\ Len(RowsOf(st, c.xform, "form_license")) > 1

\* the row of highest id among the form_license rows of the call's form
Newest(c, st) ==
    LET rows == RowsOf(st, c.xform, "form_license")
    IN  CHOOSE r \in {rows[i] : i \in 1..Len(rows)} :
            \A i \in 1..Len(rows) : rows[i].id <= r.id

\* no row is added or removed, and no row but the newest changes
OthersKept(c, st, st2) ==
    /\ Len(st2) = Len(st)
    /\ \A i \in 1..Len(st) : st[i].id # Newest(c, st).id => st2[i] = st[i]

====
